---- MODULE Spec2Model ----
(***************************************************************************)
(* BTRbot: a Twitch chat listener that forwards chat events to a Supabase  *)
(* events_queue table.  src/index.js holds two revisions of the program:   *)
(*   "legacy"  (lines 1-118, identical handler in src/unnamed/part_000):   *)
(*             a synchronous message handler that posts rows with fetch;   *)
(*   "current" (lines 120-318): an async message handler that tracks the   *)
(*             voters of the current phase, and a realtime subscription    *)
(*             whose voting_phase_start notification clears the voters.    *)
(* Strings that the code converts (toLowerCase, trim, slice, parseInt) are *)
(* sequences of one-character strings.                                     *)
(***************************************************************************)
EXTENDS Integers, Sequences, FiniteSets, TLC

VARIABLES
    revision,            \* which revision of the program runs
    session,             \* chat connection: "connecting", "waiting", "connected", "failed"
    attempts,            \* connectWithRetry's attempts argument (legacy)
    retryDelay,          \* the delay of the most recent connect-retry timer (ms)
    shutdown,            \* the SIGTERM handler: where it stands, the channel it removes
    process,             \* the Node process: "running", "exited" (code 0), "crashed"
    notices,             \* the subscription, submysterygift and resub events so far
    inputs,              \* the 'message' events delivered so far, in arrival order
    events_queue,        \* rows handed to the sink, in the order the calls were issued
    handlers,            \* async message-handler invocations suspended at an await
    currentPhaseVoters,  \* the Set of lower-cased names that voted this phase
    votingPhaseChannel,  \* the referenced realtime channel (0 is null)
    channels,            \* every realtime channel created so far: id -> state
    removing,            \* subscribeToVotingPhases invocations awaiting removeChannel
    pendingTimers,       \* reconnect timers set by scheduleReconnect, not yet fired
    reconnectAttempts,   \* the reconnect attempt counter
    lastDelay,           \* the delay of the most recent reconnect timer (ms)
    phase,               \* history: number of voter-set resets so far
    voterPhase,          \* history: for each recorded voter, the phase of its check
    returned,            \* history: indices of the rows whose awaited insert returned
    thrown,              \* history: indices of the rows whose awaited insert threw
    gaveUp,              \* history: scheduleReconnect hit its give-up branch
    reported,            \* history: failure reports that found budget left (capped)
    everExhausted        \* history: reconnectAttempts has reached the maximum

vars == <<revision, session, attempts, retryDelay, shutdown, process, notices, inputs, events_queue, handlers,
          currentPhaseVoters, votingPhaseChannel, channels, removing,
          pendingTimers, reconnectAttempts, lastDelay, phase, voterPhase,
          returned, thrown, gaveUp, reported, everExhausted>>

chatVars == <<notices, inputs, events_queue, handlers, currentPhaseVoters, voterPhase,
              returned, thrown>>
subVars == <<votingPhaseChannel, channels, removing>>
retryVars == <<pendingTimers, reconnectAttempts, lastDelay, gaveUp, reported,
               everExhausted>>
connVars == <<revision, session, attempts, retryDelay, shutdown, process>>

\* the process has neither exited nor died of an unhandled rejection
Running == process = "running"

----------------------------------------------------------------------------
(* Bounds of the model *)

MaxMessages == 2
MaxNotices == 1
MaxResets == 2
MaxChannels == 3
MaxTimers == 10

(* Program constants *)

MAX_RECONNECT_ATTEMPTS == 10
BASE_RECONNECT_DELAY == 2000
MAX_RECONNECT_DELAY == 60000
MAX_CONNECT_RETRIES == 3
CONNECT_RETRY_DELAY == 5000
SLICE_START == 14

----------------------------------------------------------------------------
(* JavaScript string operations, on sequences of characters *)

UpperChars == <<"A","B","C","D","E","F","G","H","I","J","K","L","M",
                "N","O","P","Q","R","S","T","U","V","W","X","Y","Z">>
LowerChars == <<"a","b","c","d","e","f","g","h","i","j","k","l","m",
                "n","o","p","q","r","s","t","u","v","w","x","y","z">>
DigitChars == <<"0","1","2","3","4","5","6","7","8","9">>

LowerChar(c) ==
    IF \E i \in 1..Len(UpperChars) : UpperChars[i] = c
    THEN LowerChars[CHOOSE i \in 1..Len(UpperChars) : UpperChars[i] = c]
    ELSE c

\* String.prototype.toLowerCase
ToLowerCase(s) == [i \in 1..Len(s) |-> LowerChar(s[i])]

\* String.prototype.trim (the only white space of the inputs is the blank)
Trim(s) ==
    LET solid == {i \in 1..Len(s) : s[i] # " "}
    IN  IF solid = {} THEN <<>>
        ELSE SubSeq(s, CHOOSE i \in solid : \A j \in solid : i <= j,
                       CHOOSE i \in solid : \A j \in solid : i >= j)

\* String.prototype.slice(n), n >= 0: the characters from 0-based index n on
Slice(s, n) == SubSeq(s, n + 1, Len(s))

\* String.prototype.startsWith
StartsWith(s, p) == Len(s) >= Len(p) /\ SubSeq(s, 1, Len(p)) = p

\* String.prototype.charAt(i), and s[i]: the character at 0-based index i
CharAt(s, i) == IF i < Len(s) THEN <<s[i + 1]>> ELSE <<>>

IsDigit(c) == \E i \in 1..Len(DigitChars) : DigitChars[i] = c
DigitValue(c) == (CHOOSE i \in 1..Len(DigitChars) : DigitChars[i] = c) - 1

\* a non-negative integer in a template literal: its decimal digits
RECURSIVE NumberToString(_)
NumberToString(n) ==
    IF n < 10 THEN <<DigitChars[n + 1]>>
    ELSE NumberToString(n \div 10) \o <<DigitChars[(n % 10) + 1]>>

RECURSIVE DigitsValue(_)
DigitsValue(s) ==
    IF s = <<>> THEN 0
    ELSE 10 * DigitsValue(SubSeq(s, 1, Len(s) - 1)) + DigitValue(s[Len(s)])

\* the longest prefix of s made of digits
LeadingDigits(s) ==
    LET n == CHOOSE k \in 0..Len(s) :
                 /\ \A i \in 1..k : IsDigit(s[i])
                 /\ (k < Len(s) => ~IsDigit(s[k + 1]))
    IN  SubSeq(s, 1, n)

\* parseInt(x) || 0: NaN (no leading digit, or an absent tag) becomes 0
ParseIntOrZero(s) == DigitsValue(LeadingDigits(s))

\* tags.bits && tags.bits > 0: the comparison converts the string to a number,
\* which is NaN unless the whole string is numeric
BitsTagPositive(s) ==
    /\ s # <<>>
    /\ \A i \in 1..Len(s) : IsDigit(s[i])
    /\ DigitsValue(s) > 0

\* a || b on strings: the empty (or absent) string is falsy
OrElse(a, b) == IF a # <<>> THEN a ELSE b

\* values of a row's amount field as JSON.stringify sends them
JsonNumber(n) == <<"number", n>>
JsonString(s) == <<"string", s>>

----------------------------------------------------------------------------
(* Literals of the source *)

OPERATOR_NAME == <<"i","b","l","a","c","k","i","s","h","_">>
RIPPLE_START == <<"!","r","i","p","p","l","e","_","s","t","a","r","t">>
RIPPLE_END == <<"!","r","i","p","p","l","e","_","e","n","d">>
ATTACK == <<"!","a","t","t","a","c","k">>
VOTE_COMMANDS == {<<"!","1">>, <<"!","2">>, <<"!","3">>}

----------------------------------------------------------------------------
(* The 'message' events the chat library may deliver *)

RawEvent(u, d, m, b, id, sub, self) ==
    [username |-> u, displayName |-> d, message |-> m, bits |-> b,
     msgid |-> id, subscriber |-> sub, mod |-> FALSE, broadcaster |-> FALSE,
     self |-> self]

\* the same event with tags.mod and tags.badges.broadcaster set
WithRoles(e, mod, broadcaster) == [e EXCEPT !.mod = mod, !.broadcaster = broadcaster]

NameAl == <<"a","l">>
NameBo == <<"b","o">>
DisplayAl == <<"A","l">>
DisplayBo == <<"B","o">>
DisplayOperator == <<"i","B","l","a","c","k","i","s","h","_">>
MsgVote1 == <<"!","1">>
MsgVote2Padded == <<" ","!","2"," ">>
MsgHi == <<"h","i">>
MsgHello == <<"h","e","l","l","o">>
MsgAttack == <<"!","A","t","t","a","c","k">>
MsgBoss == RIPPLE_START \o <<" ","B","o","s","s"," ","P","h","a","s","e"," ","2">>
MsgStartGlued == RIPPLE_START \o <<"X","Y">>

VoteEvents ==
    { RawEvent(NameAl, DisplayAl, MsgVote1, <<>>, "", "true", FALSE),
      RawEvent(NameAl, <<>>, MsgVote1, <<>>, "", "true", FALSE),
      RawEvent(NameAl, DisplayAl, MsgVote2Padded, <<>>, "", "true", FALSE),
      RawEvent(NameBo, DisplayBo, MsgVote1, <<>>, "", "true", FALSE),
      RawEvent(NameBo, DisplayBo, MsgVote1, <<>>, "", "false", FALSE),
      WithRoles(RawEvent(NameBo, DisplayBo, MsgVote1, <<>>, "", "false", FALSE),
                TRUE, TRUE) }

TaggedEvents ==
    { RawEvent(NameBo, DisplayBo, MsgVote1, <<"5">>, "", "1", FALSE),
      RawEvent(NameAl, DisplayAl, MsgHi, <<"5">>, "resub", "true", FALSE),
      RawEvent(NameAl, DisplayAl, MsgHi, <<>>, "subgift", "false", FALSE),
      RawEvent(NameBo, DisplayBo, MsgAttack, <<>>, "", "false", FALSE) }

CommandEvents ==
    { RawEvent(OPERATOR_NAME, DisplayOperator, MsgBoss, <<>>, "", "false", FALSE),
      RawEvent(OPERATOR_NAME, DisplayOperator, MsgStartGlued, <<>>, "", "false", FALSE),
      RawEvent(DisplayOperator, DisplayOperator, RIPPLE_END, <<>>, "", "false", FALSE),
      RawEvent(NameBo, DisplayBo, MsgBoss, <<>>, "", "false", FALSE),
      RawEvent(NameBo, DisplayBo, RIPPLE_END, <<>>, "", "false", FALSE) }

SelfEvents ==
    { RawEvent(OPERATOR_NAME, DisplayOperator, MsgVote1, <<>>, "", "false", TRUE) }

RawEvents == VoteEvents \cup TaggedEvents \cup CommandEvents \cup SelfEvents

----------------------------------------------------------------------------
(* The sink: sendToSupabase (legacy) and supabase.from(..).insert (current). *)
(* A row has the four fields of the code; src (the index in inputs of the    *)
(* message it was issued for) and phase (the resets before the call) are    *)
(* history.                                                                 *)

Row(type, user, amount, msg, src) ==
    [event_type |-> type, user_name |-> user, amount |-> amount,
     message |-> msg, src |-> src, phase |-> phase]

----------------------------------------------------------------------------
(* Legacy revision: client.on('message'), one synchronous pass over the rules *)

LegacyCheer(e, id) ==
    IF BitsTagPositive(e.bits)
    THEN <<Row("channel.cheer", e.username, JsonString(e.bits), <<>>, id)>>
    ELSE <<>>

LegacySubscribe(e, id) ==
    IF e.msgid = "sub" \/ e.msgid = "resub"
    THEN <<Row("channel.subscribe", e.username, JsonNumber(1), <<>>, id)>>
    ELSE <<>>

LegacyGift(e, id) ==
    IF e.msgid = "subgift" \/ e.msgid = "anonsubgift"
    THEN <<Row("channel.subscription.gift", e.username, JsonNumber(1), <<>>, id)>>
    ELSE <<>>

\* message.match(/^![123]$/) && (tags.subscriber === true || tags.subscriber === '1')
LegacyVote(e, id) ==
    IF e.message \in VOTE_COMMANDS /\ (e.subscriber = "true" \/ e.subscriber = "1")
    THEN <<Row("vote", e.username, JsonNumber(1), CharAt(e.message, 1), id)>>
    ELSE <<>>

LegacyAttack(e, id) ==
    IF ToLowerCase(e.message) = ATTACK
    THEN <<Row("boss_attack", e.username, JsonNumber(1), <<>>, id)>>
    ELSE <<>>

\* mutant: the operator check left out
IsOperator_Anyone(username) == TRUE

\* username.toLowerCase() === 'iblackish_'
IsOperator(username) == ToLowerCase(username) = OPERATOR_NAME

\* message.slice(14).trim()
SecretStartPayload(message) == Trim(Slice(message, SLICE_START))

LegacySecret(e, id) ==
    IF IsOperator(e.username)
    THEN (IF StartsWith(e.message, RIPPLE_START)
          THEN <<Row("secret_start", OPERATOR_NAME, JsonNumber(1),
                     SecretStartPayload(e.message), id)>>
          ELSE <<>>)
         \o
         (IF e.message = RIPPLE_END
          THEN <<Row("secret_end", OPERATOR_NAME, JsonNumber(1), <<>>, id)>>
          ELSE <<>>)
    ELSE <<>>

LegacyRows(e, id) ==
    LegacyCheer(e, id) \o LegacySubscribe(e, id) \o LegacyGift(e, id)
        \o LegacyVote(e, id) \o LegacyAttack(e, id) \o LegacySecret(e, id)

LegacyMessage(e) ==
    /\ Running
    /\ revision = "legacy"
    /\ session = "connected"
    /\ Len(inputs) < MaxMessages
    /\ inputs' = Append(inputs, e)
    /\ events_queue' = IF e.self THEN events_queue
                       ELSE events_queue \o LegacyRows(e, Len(inputs) + 1)
    /\ UNCHANGED <<notices, handlers, currentPhaseVoters, voterPhase, returned, thrown,
                   phase>>
    /\ UNCHANGED <<connVars, subVars, retryVars>>

----------------------------------------------------------------------------
(* Current revision: client.on('message', async ...)                        *)

\* tags['display-name'] || tags.username
Username(e) == OrElse(e.displayName, e.username)

\* the key of currentPhaseVoters.has / .add: username.toLowerCase()
VoterKey(e) == ToLowerCase(Username(e))

\* ['!1', '!2', '!3'].includes(message.trim())
IsVote(message) == Trim(message) \in VOTE_COMMANDS

\* message.trim().charAt(1)
VoteNumber(message) == CharAt(Trim(message), 1)

\* currentPhaseVoters.has(username.toLowerCase())
AlreadyVoted(e) == VoterKey(e) \in currentPhaseVoters

\* a suspended invocation: the message it handles, the await it is at, the row
\* it awaits, and (history) the phase in which its membership check was made
Handler(id, at, row, checked) == [id |-> id, at |-> at, row |-> row, checked |-> checked]

\* Lines 238-256 up to the await of the vote insert, run by invocation id on
\* mutant: the vote rule of the legacy revision, for subscribers only
VoteBranch_SubOnly(id, e, others) ==
    IF IsVote(e.message) /\ ~AlreadyVoted(e)
       /\ (e.subscriber = "true" \/ e.subscriber = "1")
    THEN /\ events_queue' = Append(events_queue,
                Row("vote", Username(e), JsonNumber(1), VoteNumber(e.message), id))
         /\ handlers' = others \cup {Handler(id, "vote", Len(events_queue) + 1, phase)}
    ELSE /\ events_queue' = events_queue
         /\ handlers' = others

\* The vote rule of the handler invocation id for event e; others are the other
\* suspended invocations.
VoteBranch(id, e, others) ==
    IF IsVote(e.message) /\ ~AlreadyVoted(e)
    THEN /\ events_queue' = Append(events_queue,
                Row("vote", Username(e), JsonNumber(1), VoteNumber(e.message), id))
         /\ handlers' = others \cup {Handler(id, "vote", Len(events_queue) + 1, phase)}
    ELSE /\ events_queue' = events_queue
         /\ handlers' = others

\* A 'message' event arrives: the handler runs to its first await or to its end.
Message(e) ==
    /\ Running
    /\ revision = "current"
    /\ session = "connected"
    /\ Len(inputs) < MaxMessages
    /\ inputs' = Append(inputs, e)
    /\ LET id == Len(inputs) + 1
       IN  IF e.self
           THEN UNCHANGED <<events_queue, handlers>>
           ELSE IF ParseIntOrZero(e.bits) > 0
                THEN /\ events_queue' = Append(events_queue,
                            Row("channel.cheer", Username(e),
                                JsonNumber(ParseIntOrZero(e.bits)), e.message, id))
                     /\ handlers' = handlers \cup
                            {Handler(id, "cheer", Len(events_queue) + 1, -1)}
                ELSE VoteBranch(id, e, handlers)
    /\ UNCHANGED <<notices, currentPhaseVoters, voterPhase, returned, thrown, phase>>
    /\ UNCHANGED <<connVars, subVars, retryVars>>

\* An awaited insert rejects in an async handler that catches nothing: the
\* handler's promise rejects, no listener for unhandled rejections is
\* installed, and the runtime ends the process with exit code 1.
UnhandledRejection(h) ==
    /\ handlers' = handlers \ {h}
    /\ thrown' = thrown \cup {h.row}
    /\ process' = "crashed"
    /\ UNCHANGED <<revision, session, attempts, retryDelay, shutdown>>

\* The awaited cheer insert settles: it returns (the result is not looked at)
\* and the handler goes on to the vote rule, or it throws.
CheerDone(h, threw) ==
    /\ Running
    /\ h \in handlers
    /\ h.at = "cheer"
    /\ IF threw
       THEN /\ UnhandledRejection(h)
            /\ UNCHANGED <<events_queue, returned>>
       ELSE /\ VoteBranch(h.id, inputs[h.id], handlers \ {h})
            /\ returned' = returned \cup {h.row}
            /\ UNCHANGED <<thrown, connVars>>
    /\ UNCHANGED <<notices, inputs, currentPhaseVoters, voterPhase, phase>>
    /\ UNCHANGED <<subVars, retryVars>>

\* currentPhaseVoters.add(username.toLowerCase()) after the awaited vote insert
MarkVoted(h) ==
    /\ currentPhaseVoters' = currentPhaseVoters \cup {VoterKey(inputs[h.id])}
    /\ voterPhase' = voterPhase \cup {<<VoterKey(inputs[h.id]), h.checked>>}

\* The awaited vote insert settles: on return the voter is recorded.
VoteDone(h, threw) ==
    /\ Running
    /\ h \in handlers
    /\ h.at = "vote"
    /\ IF threw
       THEN /\ UnhandledRejection(h)
            /\ UNCHANGED <<currentPhaseVoters, voterPhase, returned>>
       ELSE /\ handlers' = handlers \ {h}
            /\ MarkVoted(h)
            /\ returned' = returned \cup {h.row}
            /\ UNCHANGED <<thrown, connVars>>
    /\ UNCHANGED <<notices, inputs, events_queue, phase>>
    /\ UNCHANGED <<subVars, retryVars>>

----------------------------------------------------------------------------
(* Current revision: client.on('subscription' / 'submysterygift' / 'resub')  *)

NoticeEvent(kind, u, n, m) == [kind |-> kind, username |-> u, count |-> n, message |-> m]

\* the events the chat library may emit; a message of <<>> is null
NoticeEvents ==
    { NoticeEvent("subscription", NameAl, 0, MsgHello),
      NoticeEvent("subscription", NameAl, 0, <<>>),
      NoticeEvent("resub", NameAl, 7, <<>>),
      NoticeEvent("submysterygift", NameBo, 5, <<>>) }

\* `Gifted ${numbOfSubs} subs`
GiftedText(n) == <<"G","i","f","t","e","d"," ">> \o NumberToString(n) \o <<" ","s","u","b","s">>

\* `Resubbed for ${months} months`
ResubbedText(n) ==
    <<"R","e","s","u","b","b","e","d"," ","f","o","r"," ">> \o NumberToString(n)
        \o <<" ","m","o","n","t","h","s">>

\* the handler issues its row and is suspended at the awaited insert
NoticeInsert(n, row) ==
    /\ revision = "current"
    /\ session = "connected"
    /\ Len(notices) < MaxNotices
    /\ notices' = Append(notices, n)
    /\ events_queue' = Append(events_queue, row)
    /\ handlers' = handlers \cup {Handler(0, "notice", Len(events_queue) + 1, -1)}
    /\ UNCHANGED <<inputs, currentPhaseVoters, voterPhase, returned, thrown, phase>>
    /\ UNCHANGED <<connVars, subVars, retryVars>>

\* client.on('subscription', ...)
Subscription(n) ==
    /\ Running
    /\ n.kind = "subscription"
    /\ NoticeInsert(n, Row("channel.subscribe", n.username, JsonNumber(1),
                           OrElse(n.message, <<>>), 0))

\* client.on('submysterygift', ...)
SubMysteryGift(n) ==
    /\ Running
    /\ n.kind = "submysterygift"
    /\ NoticeInsert(n, Row("channel.subscription.gift", n.username,
                           JsonNumber(n.count), GiftedText(n.count), 0))

\* client.on('resub', ...)
Resub(n) ==
    /\ Running
    /\ n.kind = "resub"
    /\ NoticeInsert(n, Row("channel.subscribe", n.username, JsonNumber(1),
                           OrElse(n.message, ResubbedText(n.count)), 0))

\* The awaited insert of one of these handlers settles.
NoticeDone(h, threw) ==
    /\ Running
    /\ h \in handlers
    /\ h.at = "notice"
    /\ IF threw
       THEN /\ UnhandledRejection(h)
            /\ UNCHANGED returned
       ELSE /\ handlers' = handlers \ {h}
            /\ returned' = returned \cup {h.row}
            /\ UNCHANGED <<thrown, connVars>>
    /\ UNCHANGED <<notices, inputs, events_queue, currentPhaseVoters, voterPhase, phase>>
    /\ UNCHANGED <<subVars, retryVars>>

----------------------------------------------------------------------------
(* Current revision: the voting-phase subscription and its reconnects        *)

Min(a, b) == IF a <= b THEN a ELSE b

\* mutant: the exponential delay without its cap
ReconnectDelay_NoCap(n) == BASE_RECONNECT_DELAY * 2 ^ (n - 1)

\* Math.min(BASE_RECONNECT_DELAY * Math.pow(2, reconnectAttempts - 1), 60000)
ReconnectDelay(n) == Min(BASE_RECONNECT_DELAY * 2 ^ (n - 1), MAX_RECONNECT_DELAY)

\* mutant: the give-up test off by one
AttemptsExhausted_OffByOne == reconnectAttempts > MAX_RECONNECT_ATTEMPTS

\* the guard of scheduleReconnect's give-up branch
AttemptsExhausted == reconnectAttempts >= MAX_RECONNECT_ATTEMPTS

\* mutant: the attempt is counted and logged but no timer is set
ScheduleReconnect_NoTimer ==
    IF AttemptsExhausted
    THEN /\ gaveUp' = TRUE
         /\ UNCHANGED <<pendingTimers, reconnectAttempts, lastDelay, reported,
                        everExhausted>>
    ELSE /\ reconnectAttempts' = reconnectAttempts + 1
         /\ lastDelay' = ReconnectDelay(reconnectAttempts + 1)
         /\ reported' = Min(reported + 1, MaxChannels)
         /\ everExhausted' =
                (everExhausted \/ reconnectAttempts + 1 >= MAX_RECONNECT_ATTEMPTS)
         /\ UNCHANGED <<gaveUp, pendingTimers>>

\* scheduleReconnect()
ScheduleReconnect ==
    IF AttemptsExhausted
    THEN /\ gaveUp' = TRUE
         /\ UNCHANGED <<pendingTimers, reconnectAttempts, lastDelay, reported,
                        everExhausted>>
    ELSE /\ reconnectAttempts' = reconnectAttempts + 1
         /\ lastDelay' = ReconnectDelay(reconnectAttempts + 1)
         /\ pendingTimers' = pendingTimers + 1
         /\ reported' = Min(reported + 1, MaxChannels)
         /\ everExhausted' =
                (everExhausted \/ reconnectAttempts + 1 >= MAX_RECONNECT_ATTEMPTS)
         /\ UNCHANGED gaveUp

\* the model holds at most MaxTimers pending timers
TimerRoom == AttemptsExhausted \/ pendingTimers < MaxTimers

Alive(c) == channels[c] \in {"joining", "joined", "errored"}

\* supabase.channel(channelName).on(...).subscribe(...), assigned to votingPhaseChannel
OpenChannel(chs) ==
    /\ channels' = Append(chs, "joining")
    /\ votingPhaseChannel' = Len(chs) + 1

\* subscribeToVotingPhases() up to its await, or to its end when no channel is held
SubscribeToVotingPhases ==
    IF votingPhaseChannel # 0
    THEN /\ removing' = Append(removing, votingPhaseChannel)
         /\ UNCHANGED <<votingPhaseChannel, channels>>
    ELSE /\ OpenChannel(channels)
         /\ UNCHANGED removing

\* each invocation opens one channel; the model opens at most MaxChannels
ChannelRoom == Len(channels) + Len(removing) < MaxChannels

\* The awaited removeChannel of invocation k settles.  On return the channel is
\* torn down; when it throws, what became of the channel is not known.
RemoveChannelDone(k, threw) ==
    /\ Running
    /\ k \in 1..Len(removing)
    /\ LET c == removing[k]
           after == IF ~Alive(c) THEN channels[c]
                    ELSE IF threw THEN "unknown" ELSE "closed"
       IN  OpenChannel([channels EXCEPT ![c] = after])
    /\ removing' = SubSeq(removing, 1, k - 1) \o SubSeq(removing, k + 1, Len(removing))
    /\ UNCHANGED <<connVars, chatVars, retryVars, phase>>

\* setTimeout(() => subscribeToVotingPhases(), delay) fires
TimerFire ==
    /\ Running
    /\ pendingTimers > 0
    /\ ChannelRoom
    /\ pendingTimers' = pendingTimers - 1
    /\ SubscribeToVotingPhases
    /\ UNCHANGED <<reconnectAttempts, lastDelay, gaveUp, reported, everExhausted>>
    /\ UNCHANGED <<connVars, chatVars, phase>>

\* mutant: SUBSCRIBED without the reset of the counter
ChanSubscribed_NoReset(c) ==
    /\ Running
    /\ c \in 1..Len(channels)
    /\ channels[c] \in {"joining", "errored"}
    /\ channels' = [channels EXCEPT ![c] = "joined"]
    /\ UNCHANGED retryVars
    /\ UNCHANGED <<votingPhaseChannel, removing, connVars, chatVars, phase>>

\* subscribe callback, status SUBSCRIBED (first join, or the library's rejoin)
ChanSubscribed(c) ==
    /\ Running
    /\ c \in 1..Len(channels)
    /\ channels[c] \in {"joining", "errored"}
    /\ channels' = [channels EXCEPT ![c] = "joined"]
    /\ reconnectAttempts' = 0
    /\ UNCHANGED <<pendingTimers, lastDelay, gaveUp, reported, everExhausted>>
    /\ UNCHANGED <<votingPhaseChannel, removing, connVars, chatVars, phase>>

\* subscribe callback, status CHANNEL_ERROR
ChanError(c) ==
    /\ Running
    /\ c \in 1..Len(channels)
    /\ Alive(c)
    /\ TimerRoom
    /\ channels' = [channels EXCEPT ![c] = "errored"]
    /\ ScheduleReconnect
    /\ UNCHANGED <<votingPhaseChannel, removing, connVars, chatVars, phase>>

\* subscribe callback, status CLOSED (the backend closed it, or a teardown did)
ChanClosed(c) ==
    /\ Running
    /\ c \in 1..Len(channels)
    /\ Alive(c)
    /\ TimerRoom
    /\ channels' = [channels EXCEPT ![c] = "closed"]
    /\ ScheduleReconnect
    /\ UNCHANGED <<votingPhaseChannel, removing, connVars, chatVars, phase>>

\* subscribe callback, status TIMED_OUT: no branch of the callback handles it
ChanTimedOut(c) ==
    /\ Running
    /\ c \in 1..Len(channels)
    /\ channels[c] = "joining"
    /\ channels' = [channels EXCEPT ![c] = "errored"]
    /\ UNCHANGED <<votingPhaseChannel, removing, connVars, chatVars, retryVars, phase>>

\* currentPhaseVoters.clear()
Clear(voters) == {}

\* postgres_changes callback: a voting_phase_start row was inserted
Notification(c) ==
    /\ Running
    /\ c \in 1..Len(channels)
    /\ channels[c] = "joined"
    /\ phase < MaxResets
    /\ currentPhaseVoters' = Clear(currentPhaseVoters)
    /\ voterPhase' = {}
    /\ phase' = phase + 1
    /\ reconnectAttempts' = 0
    /\ UNCHANGED <<pendingTimers, lastDelay, gaveUp, reported, everExhausted>>
    /\ UNCHANGED <<notices, inputs, events_queue, handlers, returned, thrown, connVars,
                   subVars>>

----------------------------------------------------------------------------
(* Connecting to chat: connectWithRetry (legacy), client.connect() (current) *)

ConnectOk ==
    /\ Running
    /\ session = "connecting"
    /\ session' = "connected"
    /\ IF revision = "current"
       THEN SubscribeToVotingPhases
       ELSE UNCHANGED subVars
    /\ UNCHANGED <<revision, attempts, retryDelay, shutdown, process, chatVars, retryVars, phase>>

\* mutant: one retry more than the code allows
RetryAllowed_OneMore == revision = "legacy" /\ attempts <= MAX_CONNECT_RETRIES

\* connectWithRetry retries while attempts < 3; the current revision's
\* client.connect().catch only logs
RetryAllowed == revision = "legacy" /\ attempts < MAX_CONNECT_RETRIES

\* the connection attempt fails: the catch of connectWithRetry / client.connect()
ConnectFail ==
    /\ Running
    /\ session = "connecting"
    /\ session' = IF RetryAllowed THEN "waiting" ELSE "failed"
    /\ retryDelay' = IF RetryAllowed THEN CONNECT_RETRY_DELAY ELSE retryDelay
    /\ UNCHANGED <<revision, attempts, shutdown, process, chatVars, subVars, retryVars, phase>>

\* setTimeout(() => connectWithRetry(attempts + 1), 5000) fires
RetryTimer ==
    /\ Running
    /\ session = "waiting"
    /\ session' = "connecting"
    /\ attempts' = attempts + 1
    /\ UNCHANGED <<revision, retryDelay, shutdown, process, chatVars, subVars, retryVars, phase>>

----------------------------------------------------------------------------
(* Graceful shutdown: process.on('SIGTERM') of the current revision *)

ShutdownAt(at, ch) == [at |-> at, ch |-> ch]

\* SIGTERM arrives: the handler runs up to its first await
Sigterm ==
    /\ Running
    /\ shutdown.at = "running"
    /\ shutdown' = IF votingPhaseChannel # 0
                   THEN ShutdownAt("removing", votingPhaseChannel)
                   ELSE ShutdownAt("disconnecting", 0)
    /\ UNCHANGED <<revision, session, attempts, retryDelay, process>>
    /\ UNCHANGED <<chatVars, subVars, retryVars, phase>>

\* The handler's awaited removeChannel settles.  Nothing catches a throw, so
\* the handler's promise rejects, the lines after the await never run, and the
\* unhandled rejection ends the process with exit code 1.
ShutdownRemoveDone(threw) ==
    /\ Running
    /\ shutdown.at = "removing"
    /\ LET c == shutdown.ch
           after == IF ~Alive(c) THEN channels[c]
                    ELSE IF threw THEN "unknown" ELSE "closed"
       IN  channels' = [channels EXCEPT ![c] = after]
    /\ shutdown' = IF threw THEN ShutdownAt("rejected", 0)
                   ELSE ShutdownAt("disconnecting", 0)
    /\ process' = IF threw THEN "crashed" ELSE process
    /\ UNCHANGED <<revision, session, attempts, retryDelay>>
    /\ UNCHANGED <<votingPhaseChannel, removing, chatVars, retryVars, phase>>

\* The awaited client.disconnect() settles.  On return process.exit(0) runs; a
\* rejection is unhandled and ends the process with exit code 1.
ShutdownDisconnectDone(threw) ==
    /\ Running
    /\ shutdown.at = "disconnecting"
    /\ shutdown' = IF threw THEN ShutdownAt("rejected", 0) ELSE ShutdownAt("exited", 0)
    /\ session' = IF threw THEN session ELSE "closed"
    /\ process' = IF threw THEN "crashed" ELSE "exited"
    /\ UNCHANGED <<revision, attempts, retryDelay>>
    /\ UNCHANGED <<chatVars, subVars, retryVars, phase>>

----------------------------------------------------------------------------
(* Specifications *)

Init ==
    /\ revision \in {"legacy", "current"}
    /\ session = "connecting"
    /\ attempts = 0
    /\ retryDelay = 0
    /\ shutdown = ShutdownAt("running", 0)
    /\ process = "running"
    /\ notices = <<>>
    /\ inputs = <<>>
    /\ events_queue = <<>>
    /\ handlers = {}
    /\ currentPhaseVoters = {}
    /\ votingPhaseChannel = 0
    /\ channels = <<>>
    /\ removing = <<>>
    /\ pendingTimers = 0
    /\ reconnectAttempts = 0
    /\ lastDelay = 0
    /\ phase = 0
    /\ voterPhase = {}
    /\ returned = {}
    /\ thrown = {}
    /\ gaveUp = FALSE
    /\ reported = 0
    /\ everExhausted = FALSE

\* Chat handling of either revision, with a subscription that does not fail.
Next ==
    \/ ConnectOk
    \/ ConnectFail
    \/ RetryTimer
    \/ \E e \in RawEvents : LegacyMessage(e)
    \/ \E e \in RawEvents : Message(e)
    \/ \E h \in handlers, threw \in BOOLEAN : CheerDone(h, threw)
    \/ \E h \in handlers, threw \in BOOLEAN : VoteDone(h, threw)
    \/ \E n \in NoticeEvents : Subscription(n)
    \/ \E n \in NoticeEvents : SubMysteryGift(n)
    \/ \E n \in NoticeEvents : Resub(n)
    \/ \E h \in handlers, threw \in BOOLEAN : NoticeDone(h, threw)
    \/ \E c \in 1..Len(channels) : ChanSubscribed(c)
    \/ \E c \in 1..Len(channels) : Notification(c)

Spec == Init /\ [][Next]_vars

\* The subscription life cycle of the current revision, with no chat traffic.
InitSub == Init /\ revision = "current"

NextSub ==
    \/ ConnectOk
    \/ ConnectFail
    \/ TimerFire
    \/ \E k \in 1..Len(removing), threw \in BOOLEAN : RemoveChannelDone(k, threw)
    \/ \E c \in 1..Len(channels) : ChanSubscribed(c)
    \/ \E c \in 1..Len(channels) : ChanError(c)
    \/ \E c \in 1..Len(channels) : ChanClosed(c)
    \/ \E c \in 1..Len(channels) : ChanTimedOut(c)
    \/ \E c \in 1..Len(channels) : Notification(c)

SpecSub == InitSub /\ [][NextSub]_vars

\* The subscription life cycle under fairness.  Timers fire, an awaited
\* removeChannel settles, and the backend acknowledges the referenced channel
\* when it keeps waiting for it.  A failure is reported only while the model has
\* room for the attempt it leads to.
Started == Len(channels) + Len(removing)

LiveRoom == Started + pendingTimers < MaxChannels

AckReferenced == votingPhaseChannel # 0 /\ ChanSubscribed(votingPhaseChannel)

NextLive ==
    \/ ConnectOk
    \/ ConnectFail
    \/ TimerFire
    \/ \E k \in 1..Len(removing), threw \in BOOLEAN : RemoveChannelDone(k, threw)
    \/ \E c \in 1..Len(channels) : ChanSubscribed(c)
    \/ \E c \in 1..Len(channels) : LiveRoom /\ ChanError(c)
    \/ \E c \in 1..Len(channels) : LiveRoom /\ ChanClosed(c)
    \/ \E c \in 1..Len(channels) : ChanTimedOut(c)
    \/ \E c \in 1..Len(channels) : Notification(c)

SpecLive ==
    /\ InitSub
    /\ [][NextLive]_vars
    /\ WF_vars(TimerFire)
    /\ WF_vars(\E k \in 1..Len(removing), threw \in BOOLEAN : RemoveChannelDone(k, threw))
    /\ WF_vars(AckReferenced)

\* The subscription life cycle with a termination request.
NextShutdown ==
    \/ NextSub
    \/ Sigterm
    \/ \E threw \in BOOLEAN : ShutdownRemoveDone(threw)
    \/ \E threw \in BOOLEAN : ShutdownDisconnectDone(threw)

SpecShutdown == InitSub /\ [][NextShutdown]_vars

----------------------------------------------------------------------------
(* Properties of the vote guard (current revision) *)

Rows == 1..Len(events_queue)

\* row i is a vote whose insert call has returned: an admitted, forwarded vote
AdmittedVote(i) ==
    /\ events_queue[i].event_type = "vote"
    /\ i \in returned

\* the participant a row is about: its user_name without regard to case
Participant(i) == ToLowerCase(events_queue[i].user_name)

\* C1: between two consecutive resets a participant contributes at most one
\* admitted vote, under every interleaving of the message handlers: no two
\* forwarded votes of one phase are of the same participant.
C1_OneVotePerParticipantPerPhase ==
    revision = "current" =>
        \A i, j \in Rows :
            (/\ AdmittedVote(i) /\ AdmittedVote(j)
             /\ events_queue[i].phase = events_queue[j].phase
             /\ Participant(i) = Participant(j))
            => i = j

\* C2: a vote never straddles a reset: every participant in the voter set had
\* its admission check made after the most recent reset.
C2_NoVoteStraddlesReset ==
    \A v \in voterPhase : v[2] = phase

VotedInPhase(k, q) ==
    \E i \in Rows :
        /\ AdmittedVote(i)
        /\ Participant(i) = k
        /\ events_queue[i].phase = q

IsPlainVoteEvent(e) ==
    /\ ~e.self
    /\ e.bits = <<>>
    /\ Trim(e.message) \in VOTE_COMMANDS

\* C3: reset boundary: when a participant whose vote was admitted in the phase
\* before the latest reset, and who has no vote in the phase after it, votes
\* again, that vote is admitted (its row is issued).
C3_VoteAfterResetAdmitted ==
    [][\A e \in RawEvents :
        (/\ revision = "current"
         /\ inputs' = Append(inputs, e)
         /\ IsPlainVoteEvent(e)
         /\ phase > 0
         /\ VotedInPhase(ToLowerCase(OrElse(e.displayName, e.username)), phase - 1)
         /\ ~VotedInPhase(ToLowerCase(OrElse(e.displayName, e.username)), phase))
        => /\ Len(events_queue') = Len(events_queue) + 1
           /\ events_queue'[Len(events_queue')].event_type = "vote"]_vars

\* the distinct participants among the vote events received so far
VotingParticipants ==
    { ToLowerCase(OrElse(inputs[i].displayName, inputs[i].username)) :
        i \in {n \in 1..Len(inputs) :
                 ~inputs[n].self /\ Trim(inputs[n].message) \in VOTE_COMMANDS} }

\* C4: after a reset-free sequence of vote events has been processed with no
\* insert failing, the number of admitted votes and the size of the voter set
\* both equal the number of distinct participants in the sequence.
C4_AdmittedEqualsDistinct ==
    (/\ revision = "current"
     /\ phase = 0
     /\ handlers = {}
     /\ thrown = {})
    => /\ Cardinality({i \in Rows : AdmittedVote(i)}) = Cardinality(VotingParticipants)
       /\ Cardinality(currentPhaseVoters) = Cardinality(VotingParticipants)

\* C5: within one phase two votes whose sender names differ only in letter
\* case collide: they are never both admitted.
C5_CaseVariantsCollide ==
    revision = "current" =>
        \A i, j \in Rows :
            (/\ AdmittedVote(i) /\ AdmittedVote(j)
             /\ events_queue[i].phase = events_queue[j].phase
             /\ events_queue[i].user_name # events_queue[j].user_name
             /\ ToLowerCase(events_queue[i].user_name)
                    = ToLowerCase(events_queue[j].user_name))
            => FALSE

----------------------------------------------------------------------------
(* Properties of the voting-phase subscription (current revision) *)

\* C6: at most one subscription is alive at any time: every channel that was
\* created and not torn down is the one votingPhaseChannel references.
C6_OnlyReferencedChannelAlive ==
    \A c \in 1..Len(channels) : Alive(c) => c = votingPhaseChannel

\* C7 as stated: once 10 reconnect attempts have been scheduled in a row, no
\* further reconnect is ever scheduled for the rest of the run.
C7_GivesUpForGood ==
    [][everExhausted => pendingTimers' <= pendingTimers]_vars

\* C7, amended: while the counter stands at 10 no reconnect is scheduled, and
\* the counter leaves 10 only by being reset to 0, which only a SUBSCRIBED
\* status or a phase-start notification does.
C7_NoScheduleWhileExhausted ==
    [][reconnectAttempts = 10 =>
          /\ pendingTimers' <= pendingTimers
          /\ reconnectAttempts' \in {0, 10}
          /\ reconnectAttempts' = 0 =>
                \/ phase' = phase + 1
                \/ \E c \in 1..Len(channels) :
                       channels[c] # "joined" /\ channels'[c] = "joined"]_vars

\* a failure was reported while the counter stood at 10, and nothing was scheduled
C7_Witness ==
    /\ gaveUp
    /\ reconnectAttempts = 10
    /\ pendingTimers < MaxTimers

----------------------------------------------------------------------------
(* Properties of the classification rules *)

SentByOperator(e) == ToLowerCase(e.username) = OPERATOR_NAME

IsStartCommand(e) ==
    /\ ~e.self
    /\ Len(e.message) >= 13
    /\ SubSeq(e.message, 1, 13) = RIPPLE_START

NewRows == (Len(events_queue) + 1)..Len(events_queue')

\* C8: an operator message starting with !ripple_start empties the
\* voter set and forwards a secret_start row whose payload is the trimmed
\* remainder of the message after the command token.
C8_StartForwardsAndResets ==
    [][\A e \in RawEvents :
        (inputs' = Append(inputs, e) /\ SentByOperator(e) /\ IsStartCommand(e))
        => /\ currentPhaseVoters' = {}
           /\ \E i \in NewRows :
                 /\ events_queue'[i].event_type = "secret_start"
                 /\ events_queue'[i].message = Trim(SubSeq(e.message, 14, Len(e.message)))]_vars

IsCommand(e) ==
    \/ (Len(e.message) >= 13 /\ SubSeq(e.message, 1, 13) = RIPPLE_START)
    \/ e.message = RIPPLE_END

\* C9: a !ripple_start... or !ripple_end message from a sender that is not the
\* operator (compared without regard to case) forwards no secret_start or
\* secret_end row and leaves the voter set unchanged.
C9_NonOperatorCommandIgnored ==
    [][\A e \in RawEvents :
        (inputs' = Append(inputs, e) /\ ~SentByOperator(e) /\ IsCommand(e))
        => /\ currentPhaseVoters' = currentPhaseVoters
           /\ phase' = phase
           /\ \A i \in NewRows :
                 events_queue'[i].event_type \notin {"secret_start", "secret_end"}]_vars

\* the legacy handler has handled a command from a sender other than the operator
C9_Witness ==
    /\ revision = "legacy"
    /\ \E i \in 1..Len(inputs) :
           /\ ~inputs[i].self
           /\ ~SentByOperator(inputs[i])
           /\ IsCommand(inputs[i])

RowsOf(i, type) == {r \in Rows : events_queue[r].src = i /\ events_queue[r].event_type = type}

\* the handling of input i has come to its end: no invocation for it is
\* suspended and none of its inserts threw
Handled(i) ==
    /\ \A h \in handlers : h.id # i
    /\ \A r \in thrown : events_queue[r].src # i

\* a vote of input i is due: the sender is a subscriber (legacy), or no other
\* input's vote row is of the same participant (current)
VoteDue(i) ==
    LET e == inputs[i]
    IN  IF revision = "legacy"
        THEN e.message \in VOTE_COMMANDS /\ e.subscriber \in {"true", "1"}
        ELSE /\ Trim(e.message) \in VOTE_COMMANDS
             /\ \A r \in Rows :
                    (events_queue[r].event_type = "vote" /\ events_queue[r].src # i)
                    => Participant(r) # ToLowerCase(OrElse(e.displayName, e.username))

\* C10: the rules fire independently: an event with a bit count above zero and
\* a sub or resub tag forwards a cheer row and a subscribe row, and one with a
\* bit count and a vote text forwards a cheer row and a vote row: once the
\* event is handled, each matching rule has issued its own row.
C10_RulesFireIndependently ==
    \A i \in 1..Len(inputs) :
        LET e == inputs[i]
        IN  (~e.self /\ e.bits = <<"5">> /\ Handled(i)) =>
               /\ Cardinality(RowsOf(i, "channel.cheer")) = 1
               /\ e.msgid \in {"sub", "resub"} =>
                      Cardinality(RowsOf(i, "channel.subscribe")) = 1
               /\ VoteDue(i) => Cardinality(RowsOf(i, "vote")) = 1

----------------------------------------------------------------------------
(* Properties of the chat connection supervisor *)

\* C11: a failed connection attempt is retried at most 3 times (attempts stays
\* within 0..3, so at most 4 attempts are made), every retry comes from a timer
\* of 5000 ms, the legacy supervisor does retry while fewer than 3 retries were
\* made, and once the session has failed for good or is connected no further
\* attempt is scheduled or made.
C11_BoundedConnectRetries ==
    [][/\ attempts' \in 0..3
       /\ (attempts' # attempts =>
              attempts' = attempts + 1 /\ session = "waiting" /\ retryDelay = 5000)
       /\ (session = "connecting" /\ session' = "waiting" =>
              revision = "legacy" /\ attempts < 3 /\ retryDelay' = 5000)
       /\ (session = "connecting" /\ session' = "failed" /\ revision = "legacy" =>
              attempts = 3)
       /\ (session \in {"failed", "connected"} =>
              session' \notin {"connecting", "waiting"} /\ attempts' = attempts)]_vars

\* the legacy supervisor has used all its retries and stopped
C11_Witness == revision = "legacy" /\ session = "failed" /\ attempts = 3

----------------------------------------------------------------------------
(* Properties of the shutdown *)

\* C12: a termination request runs the teardown of the subscription, then the
\* closing of the chat session, then the exit, and always gets to the exit: the
\* handler never ends before process.exit, also not when the teardown fails; and
\* when it has exited the chat session was closed.
C12_ShutdownReachesExit ==
    /\ shutdown.at # "rejected"
    /\ (shutdown.at = "exited" => session = "closed")

----------------------------------------------------------------------------
(* Properties of delivery failures *)

\* C13: a failed forward is isolated: it blocks and drops no later event.  After
\* a forward has failed the program is still running and handles the events
\* that follow.
C13_FailureStopsNothing == thrown # {} => process = "running"

----------------------------------------------------------------------------
(* Properties of the roles *)

\* two events of the same sender with the same text, bits and tags, whatever
\* their subscriber, moderator and broadcaster flags
SameButRoles(e, f) ==
    /\ e.username = f.username
    /\ e.displayName = f.displayName
    /\ e.message = f.message
    /\ e.bits = f.bits
    /\ e.msgid = f.msgid
    /\ e.self = f.self

\* C14: vote admission does not look at the role: when a vote event arrives, the
\* outcome is the one computed from any event f that differs from it in the
\* subscriber, moderator and broadcaster flags only: admitted exactly if f's
\* sender is not in the voter set, and the forwarded record is the one of f.
C14_RolesDoNotMatter ==
    [][\A e, f \in RawEvents :
        (/\ revision = "current"
         /\ inputs' = Append(inputs, e)
         /\ IsPlainVoteEvent(e)
         /\ SameButRoles(e, f))
        => LET name == OrElse(f.displayName, f.username)
               admitted == ToLowerCase(name) \notin currentPhaseVoters
           IN  IF admitted
               THEN /\ Len(events_queue') = Len(events_queue) + 1
                    /\ SubSeq(events_queue', 1, Len(events_queue)) = events_queue
                    /\ LET r == events_queue'[Len(events_queue')]
                       IN  /\ r.event_type = "vote"
                           /\ r.user_name = name
                           /\ r.amount = <<"number", 1>>
                           /\ r.message = <<Trim(f.message)[2]>>
               ELSE events_queue' = events_queue]_vars

\* a non-subscriber's vote was forwarded, and the vote that the same sender
\* sent next as moderator and broadcaster was rejected as a duplicate
C14_Witness ==
    /\ revision = "current"
    /\ Len(inputs) = 2
    /\ inputs[1].subscriber = "false" /\ ~inputs[1].mod
    /\ inputs[2].mod /\ inputs[2].broadcaster
    /\ SameButRoles(inputs[1], inputs[2])
    /\ IsPlainVoteEvent(inputs[1])
    /\ Len(events_queue) = 1
    /\ returned = {1}
    /\ handlers = {}

----------------------------------------------------------------------------
(* Properties of the reset *)

\* C15: the reset is total and idempotent from both origins: a reset by the
\* notification and a reset by the operator's !ripple_start each leave the
\* voter set empty, whatever it held and also when it was empty from a reset
\* just before, so the set is empty after one reset, after two, and after the
\* resets of the two origins in either order.
C15_ResetTotalIdempotent ==
    [][/\ (phase' # phase => currentPhaseVoters' = {})
       /\ \A e \in RawEvents :
              (inputs' = Append(inputs, e) /\ SentByOperator(e) /\ IsStartCommand(e))
              => currentPhaseVoters' = {}]_vars


----------------------------------------------------------------------------
(* Properties of the subscription attempts *)

\* C16: subscription attempts never overlap: at no time are two invocations of
\* subscribeToVotingPhases in progress, that is, suspended at the await of
\* removeChannel, also when one channel reports CHANNEL_ERROR and CLOSED.
C16_AttemptsNeverOverlap == Len(removing) <= 1

\* the referenced channel is subscribed
Subscribed == votingPhaseChannel # 0 /\ channels[votingPhaseChannel] = "joined"

\* C17: every failure or closure reported while the budget is not exhausted is
\* followed by a new subscription attempt: after the k-th such report, at least
\* k attempts beyond the first have started; and when the backend acknowledges,
\* the subscription is back to subscribed.
C17_FailureLeadsToAttempt ==
    /\ \A k \in 1..(MaxChannels - 1) :
          (reported >= k) ~> (Len(channels) + Len(removing) >= k + 1)
    /\ (reported >= 1) ~> Subscribed

\* a failure was reported, a later attempt opened channel 2 or above, and that
\* channel is subscribed
C17_Witness ==
    /\ reported >= 1
    /\ votingPhaseChannel >= 2
    /\ channels[votingPhaseChannel] = "joined"

----------------------------------------------------------------------------
(* Properties of the backoff *)

\* the delays of the 1st to the 10th consecutive failure, in milliseconds
ExpectedDelays == <<2000, 4000, 8000, 16000, 32000, 60000, 60000, 60000, 60000, 60000>>

\* C18: the timer set for the k-th consecutive failure, k from 1 to 10, has the
\* delay min(2000 * 2^(k-1), 60000): 2, 4, 8, 16, 32 seconds and from the 6th
\* on 60 seconds; no timer has a delay below 2 seconds or above 60 seconds.
C18_BackoffDelay ==
    [][pendingTimers' > pendingTimers =>
        /\ reconnectAttempts' = reconnectAttempts + 1
        /\ reconnectAttempts' \in 1..10
        /\ lastDelay' = ExpectedDelays[reconnectAttempts']
        /\ lastDelay' >= 2000
        /\ lastDelay' <= 60000]_vars

\* the 6th consecutive failure, the first whose delay is capped
C18_Witness == reconnectAttempts = 6 /\ lastDelay = 60000 /\ pendingTimers > 0

\* C19: the counter stays within 0..10; a SUBSCRIBED acknowledgment (a channel
\* becomes joined) sets it to zero; and a failure that finds it at zero, as the
\* first failure after a success does, is attempt 1 of 10 with the base delay
\* of 2 seconds.
C19_CounterResetOnSuccess ==
    [][/\ reconnectAttempts' \in 0..10
       /\ \A c \in 1..Len(channels) :
              (channels[c] # "joined" /\ channels'[c] = "joined")
              => reconnectAttempts' = 0
       /\ (reconnectAttempts = 0 /\ pendingTimers' > pendingTimers)
              => (reconnectAttempts' = 1 /\ lastDelay' = 2000)]_vars

\* the counter had reached 10, no notification came, and the counter stands at
\* 1 with the base delay: a SUBSCRIBED reset it and a failure followed
C19_Witness ==
    /\ everExhausted
    /\ phase = 0
    /\ reconnectAttempts = 1
    /\ lastDelay = 2000
    /\ pendingTimers > 0

----------------------------------------------------------------------------
(* Properties of the recording of a voter *)

\* a vote row of participant k
VoteOf(i, k) == events_queue[i].event_type = "vote" /\ Participant(i) = k

\* C20: a participant enters the voter set only when the forward of their vote
\* returns: a step that adds to the set is the return of a vote's forward and
\* adds that vote's participant, and a forward that returns records the
\* participant; a forward that throws leaves the set as it is, and the same
\* participant's next vote in the phase is admitted: when it arrives it is
\* handled and its row is issued.
C20_RecordedOnlyAfterReturn ==
    /\ \A v \in currentPhaseVoters : \E i \in returned : VoteOf(i, v)
    /\ \A i \in thrown :
          events_queue[i].event_type = "vote" /\ events_queue[i].phase = phase
          => /\ Participant(i) \notin currentPhaseVoters
             /\ Len(inputs) < MaxMessages
                => ENABLED (/\ Message(inputs[events_queue[i].src])
                            /\ Len(events_queue') = Len(events_queue) + 1)

====
